---- MODULE Spec2Model ----
(***************************************************************************)
(* Model of the three entry points of the repository fragment:             *)
(*   - module.exports(env, argv) of webpack.common.js, which builds the    *)
(*     bundler configuration (devtool, bail, plugin list);                 *)
(*   - createWebpackCompiler of webpack.common.js, which creates the       *)
(*     compiler and registers the 'invalid' and 'done' handlers;           *)
(*   - scripts/generateChangelog.js, which spawns lerna.                   *)
(* A run picks one entry point (Init has run none yet).  JavaScript values *)
(* are modelled as tokens (strings) so that undefined, null, false, true,  *)
(* numbers, strings and objects stay distinct and truthiness is explicit.  *)
(***************************************************************************)
EXTENDS Integers, Sequences, FiniteSets, TLC

VARIABLES
    prog,           \* entry point that ran: "none", "config", "compiler", "changelog"
    env,            \* module.exports: env.production, env.development
    webConfig,      \* module.exports: config.web.devtool/serviceWorker/report
    result,         \* module.exports: the returned configuration (bail, devtool, plugins)
    args,           \* createWebpackCompiler: nonInteractive, urls.lanUrlForTerminal
    cpc,            \* createWebpackCompiler: "idle", "listening", "exited"
    exitCode,       \* code given to process.exit by the compiler process ("none" if not exited)
    webpackCalls,   \* number of calls of webpack(config)
    startup,        \* effects of createWebpackCompiler itself, in order
    handlers,       \* compiler.hooks.<name>.tap registrations
    isFirstCompile, \* the closure variable of createWebpackCompiler
    handled,        \* events delivered so far: [type, stats, out]
    script          \* generateChangelog.js: argv, log, spawned, child, status

vars == <<prog, env, webConfig, result, args, cpc, exitCode, webpackCalls,
          startup, handlers, isFirstCompile, handled, script>>

configVars == <<env, webConfig, result>>
compilerVars == <<args, cpc, exitCode, webpackCalls, startup, handlers,
                  isFirstCompile, handled>>

----------------------------------------------------------------------------
(* Bounds of the model.                                                    *)

MaxEvents == 3      \* compiler events delivered in one run
MaxErrors == 2      \* errors carried by one 'done' event
MaxWarnings == 2    \* warnings carried by one 'done' event

----------------------------------------------------------------------------
(* JavaScript values.                                                      *)

Falsy == {"undefined", "null", "false", "0", "''"}

Truthy(v) == v \notin Falsy

FlagValues == {"undefined", "false", "true", "1"}

DevtoolValues == {"undefined", "false", "null", "'eval'"}

ServiceWorkerValues == {"undefined", "false", "true", "{}", "{skipWaiting:true}"}

ReportValues == {"undefined", "false", "true", "{verbose:true}"}

DEFAULT_SERVICE_WORKER == "{}"

DEFAULT_REPORT_CONFIG == "{verbose:false,path:'web-report',...}"

----------------------------------------------------------------------------
(* module.exports(env, argv): the configuration builder.                   *)

\* utils/config.js is not part of the fragment.  Modelled from its use: the
\* value true selects the default configuration, any other truthy value is
\* the configuration itself, and a falsy value ("Prevent service worker in
\* development mode" passes false) disables the feature.
overrideWithPropertyOrConfig(prop, config) ==
    IF prop = "true" THEN config ELSE prop

getDevtoolFalsyDevtool(e, wc) ==
    IF Truthy(e.production)
    THEN IF Truthy(wc.devtool) THEN wc.devtool ELSE "'source-map'"
    ELSE IF Truthy(e.development) THEN "'cheap-module-source-map'" ELSE "undefined"

getDevtool(e, wc) ==
    IF Truthy(e.production)
    THEN IF wc.devtool # "undefined" THEN wc.devtool ELSE "'source-map'"
    ELSE IF Truthy(e.development) THEN "'cheap-module-source-map'" ELSE "undefined"

serviceWorkerPropAlways(e, wc) == wc.serviceWorker

\* env.production ? config.web.serviceWorker : false
serviceWorkerProp(e, wc) ==
    IF Truthy(e.production) THEN wc.serviceWorker ELSE "false"

middlewarePlugins(e, wc) ==
    LET serviceWorker == overrideWithPropertyOrConfig(serviceWorkerProp(e, wc),
                                                      DEFAULT_SERVICE_WORKER)
    IN  <<"WebpackDeepScopeAnalysisPlugin">>
        \o (IF Truthy(serviceWorker) THEN <<"WorkboxPlugin.GenerateSW">> ELSE <<>>)
        \o <<"WebpackPWAManifestPlugin">>

reportPlugins(wc) ==
    LET reportConfig == overrideWithPropertyOrConfig(wc.report, DEFAULT_REPORT_CONFIG)
    IN  IF Truthy(reportConfig)
        THEN <<"CleanWebpackPlugin", "BundleAnalyzerPlugin">>
        ELSE <<>>

buildConfig(e, wc) ==
    [ bail    |-> e.production,
      devtool |-> getDevtool(e, wc),
      plugins |-> <<"HtmlWebpackPlugin", "InterpolateHtmlPlugin", "DefinePlugin">>
                  \o middlewarePlugins(e, wc)
                  \o <<"ModuleNotFoundPlugin", "ProgressBarPlugin">>
                  \o reportPlugins(wc) ]

NoEnv == [production |-> "undefined", development |-> "undefined"]

NoWebConfig == [devtool |-> "undefined", serviceWorker |-> "undefined",
                report |-> "undefined"]

NoResult == [bail |-> "undefined", devtool |-> "undefined", plugins |-> <<>>]

ExportConfig ==
    /\ prog = "none"
    /\ \E p \in FlagValues, d \in FlagValues, dt \in DevtoolValues,
          sw \in ServiceWorkerValues, rp \in ReportValues :
          LET e  == [production |-> p, development |-> d]
              wc == [devtool |-> dt, serviceWorker |-> sw, report |-> rp]
          IN  /\ env' = e
              /\ webConfig' = wc
              /\ result' = buildConfig(e, wc)
    /\ prog' = "config"
    /\ UNCHANGED <<compilerVars, script>>

----------------------------------------------------------------------------
(* scripts/generateChangelog.js                                            *)

ArgvValues == {<<>>, <<"--yes">>, <<"publish">>}

ExitCodeValues == {"0", "1", "2", "255"}

SignalValues == {"SIGTERM", "SIGKILL"}

\* The (code, signal) pairs of a child process 'exit' event: a numeric code
\* and a null signal, or a null code and the signal that ended the child.
ChildExits ==
    [code : ExitCodeValues, signal : {"null"}]
    \cup [code : {"null"}, signal : SignalValues]

\* process.exit(code): the process ends with the given code, and with the
\* pending process.exitCode (0 here) when the code is null or undefined.
processExit(code) ==
    IF code \in {"null", "undefined"} THEN "0" ELSE code

NoScript == [argv |-> <<>>, log |-> <<>>, spawned |-> <<>>,
             child |-> "none", childExit |-> [code |-> "none", signal |-> "none"],
             status |-> "none"]

\* Lines 1-11 up to the registration of the 'exit' listener.
RunChangelog ==
    /\ prog = "none"
    /\ \E a \in ArgvValues :
          script' = [script EXCEPT
              !.argv = a,
              !.log = <<"generating changelog...">>,
              !.spawned = <<[bin |-> "../node_modules/.bin/lerna",
                             args |-> <<"version", "--conventional-commits">>]>>,
              !.child = "running"]
    /\ prog' = "changelog"
    /\ UNCHANGED <<configVars, compilerVars>>

\* .on('exit', process.exit): the listener is process.exit itself, called
\* with (code, signal); only its first argument is read.
ChildExit ==
    /\ prog = "changelog"
    /\ script.child = "running"
    /\ \E x \in ChildExits :
          script' = [script EXCEPT
              !.child = "exited",
              !.childExit = x,
              !.status = processExit(x.code)]
    /\ UNCHANGED <<prog, configVars, compilerVars>>

----------------------------------------------------------------------------
(* createWebpackCompiler: effects.                                         *)
(* An effect is one observable call: a line on one of the three log        *)
(* channels, clearConsole(), onFinished() or process.exit(code).  A logged *)
(* value is a fixed text, or a list of formatted compiler messages passed  *)
(* as an array or joined with '\n\n'.                                       *)

NoItems == <<>>

Text(s) == [kind |-> "text", text |-> s, items |-> NoItems]

Array(ms) == [kind |-> "array", text |-> "", items |-> ms]

Joined(ms) == [kind |-> "join", text |-> "", items |-> ms]

Effect(o, m) == [op |-> o, msg |-> m]

log(m) == Effect("log", m)

logWarning(m) == Effect("logWarning", m)

logError(m) == Effect("logError", m)

clearConsole == Effect("clearConsole", Text(""))

onFinished == Effect("onFinished", Text(""))

processExitEffect(code) == Effect("process.exit", Text(code))

printInstructions(a) ==
    <<log(Text(" ")),
      log(Text("You can now view appName in the browser.")),
      log(Text(" "))>>
    \o (IF Truthy(a.lanUrlForTerminal)
        THEN <<log(Text("  Local:            localUrlForTerminal")),
               log(Text("  On Your Network:  lanUrlForTerminal")),
               log(Text(" "))>>
        ELSE <<log(Text("  localUrlForTerminal"))>>)
    \o <<log(Text("Note that the development build is not optimized.")),
         log(Text("To create a production build, use expo build:web.")),
         log(Text(" "))>>

printPreviewNotice ==
    <<log(Text(" ")),
      log(Text("Web support in Expo is experimental and subject to breaking changes.")),
      log(Text("Do not use this in production yet."))>>

----------------------------------------------------------------------------
(* Compiler messages and stats.                                            *)

Message(s, i) == [sev |-> s, id |-> i, formatted |-> FALSE]

MessageList(s, n) == [i \in 1..n |-> Message(s, i)]

\* The stats of a 'done' event: stats.toJson({all: false, warnings: true,
\* errors: true}) has an errors and a warnings array.
StatsValues ==
    { [errors |-> MessageList("error", ne), warnings |-> MessageList("warning", nw)] :
        ne \in 0..MaxErrors, nw \in 0..MaxWarnings }

\* react-dev-utils/formatWebpackMessages is an external library: each message
\* is rewritten into its readable form, keeping order and severity.
formatWebpackMessages(statsData) ==
    [ errors   |-> [i \in DOMAIN statsData.errors |->
                       [statsData.errors[i] EXCEPT !.formatted = TRUE]],
      warnings |-> [i \in DOMAIN statsData.warnings |->
                       [statsData.warnings[i] EXCEPT !.formatted = TRUE]] ]

----------------------------------------------------------------------------
(* createWebpackCompiler: the call itself.                                 *)

\* What webpack(config) does: it returns a compiler, or throws a value.
ThrownValues == {"Error('Invalid configuration object')", "Error('')", "'a thrown string'"}

WebpackOutcomes == {"returns"} \cup ThrownValues

errMessage(err) ==
    CASE err = "Error('Invalid configuration object')" -> "Invalid configuration object"
      [] err = "Error('')" -> "''"
      [] OTHER -> "undefined"

catchLoggedValueMessageOnly(err) == errMessage(err)

\* err.message || err
catchLoggedValue(err) ==
    IF Truthy(errMessage(err)) THEN errMessage(err) ELSE err

catchBlock(err) ==
    <<logError(Text(" ")),
      logError(Text("Failed to compile")),
      logError(Text(" ")),
      logError(Text(catchLoggedValue(err))),
      logError(Text(" ")),
      processExitEffect("1")>>

HasExit(effects) == \E i \in DOMAIN effects : effects[i].op = "process.exit"

ExitCodeOf(effects) ==
    LET i == CHOOSE j \in DOMAIN effects : effects[j].op = "process.exit"
    IN  effects[i].msg.text

ArgValues ==
    [ nonInteractive : {"false", "true"},
      lanUrlForTerminal : {"undefined", "'http://192.168.0.2:19006'"},
      webpack : WebpackOutcomes ]

NoArgs == [nonInteractive |-> "false", lanUrlForTerminal |-> "undefined",
           webpack |-> "returns"]

createWebpackCompiler ==
    /\ prog = "none"
    /\ \E a \in ArgValues :
          /\ args' = a
          /\ IF a.webpack = "returns"
             THEN /\ startup' = <<>>
                  /\ cpc' = "listening"
                  /\ exitCode' = "none"
                  /\ handlers' = {"invalid", "done"}
             ELSE /\ startup' = catchBlock(a.webpack)
                  /\ cpc' = "exited"
                  /\ exitCode' = ExitCodeOf(catchBlock(a.webpack))
                  /\ handlers' = {}
    /\ prog' = "compiler"
    /\ webpackCalls' = webpackCalls + 1
    /\ isFirstCompile' = TRUE
    /\ handled' = <<>>
    /\ UNCHANGED <<configVars, script>>

----------------------------------------------------------------------------
(* The 'invalid' handler.                                                  *)

invalidHandler(a) ==
    (IF ~Truthy(a.nonInteractive) THEN <<clearConsole>> ELSE <<>>)
    \o <<log(Text("\nCompiling..."))>>

NoStats == [errors |-> <<>>, warnings |-> <<>>]

Deliver(type, stats, out) ==
    /\ handled' = Append(handled, [type |-> type, stats |-> stats, out |-> out])
    /\ IF HasExit(out)
       THEN cpc' = "exited" /\ exitCode' = ExitCodeOf(out)
       ELSE UNCHANGED <<cpc, exitCode>>

InvalidEvent ==
    /\ prog = "compiler"
    /\ cpc = "listening"
    /\ "invalid" \in handlers
    /\ Len(handled) < MaxEvents
    /\ Deliver("invalid", NoStats, invalidHandler(args))
    /\ UNCHANGED <<prog, configVars, script, args, webpackCalls, startup,
                   handlers, isFirstCompile>>

----------------------------------------------------------------------------
(* The 'done' handler.  It is an async function without an await, so it   *)
(* runs to completion when the hook fires.  The callbacks it is given      *)
(* (onFinished, the loggers, stats.toJson) are taken to return normally.   *)

devSocketPart(messages) ==
    IF Len(messages.errors) > 0
    THEN <<logError(Array(messages.errors))>>
    ELSE IF Len(messages.warnings) > 0
         THEN <<logWarning(Array(messages.warnings))>>
         ELSE <<>>

isSuccessfulEither(messages) ==
    Len(messages.errors) = 0 \/ Len(messages.warnings) = 0

isSuccessful(messages) ==
    Len(messages.errors) = 0 /\ Len(messages.warnings) = 0

successPart(messages) ==
    IF isSuccessful(messages)
    THEN <<log(Text("Compiled successfully!"))>> \o printPreviewNotice
    ELSE <<>>

shouldPrintInstructionsAlways(messages, a, first) ==
    isSuccessful(messages)

\* isSuccessful && (!nonInteractive || isFirstCompile)
shouldPrintInstructions(messages, a, first) ==
    isSuccessful(messages) /\ (~Truthy(a.nonInteractive) \/ first)

instructionsPart(messages, a, first) ==
    IF shouldPrintInstructions(messages, a, first)
    THEN printInstructions(a)
    ELSE <<>>

errorSummaryBail(messages) ==
    <<logError(Text("Failed to compile.\n")),
      logError(Joined(SubSeq(messages.errors, 1, 1))),
      processExitEffect("1")>>

\* messages.errors.length = 1 keeps the first error only.
errorSummary(messages) ==
    <<logError(Text("Failed to compile.\n")),
      logError(Joined(SubSeq(messages.errors, 1, 1)))>>

warningSummary(messages) ==
    <<logWarning(Text("Compiled with warnings.\n")),
      logWarning(Joined(messages.warnings)),
      logWarning(Text("\nSearch for the keywords to learn more about each warning.")),
      logWarning(Text("To ignore, add // eslint-disable-next-line to the line before.\n"))>>

summaryPart(messages) ==
    IF Len(messages.errors) > 0
    THEN errorSummary(messages)
    ELSE IF Len(messages.warnings) > 0
         THEN warningSummary(messages)
         ELSE <<>>

finishAndSummaryReturnEarly(messages) ==
    IF Len(messages.errors) > 0
    THEN summaryPart(messages)
    ELSE summaryPart(messages) \o <<onFinished>>

\* onFinished(); isFirstCompile = false; then the summary.
finishAndSummary(messages) ==
    <<onFinished>> \o summaryPart(messages)

doneHandler(stats, a, first) ==
    LET messages == formatWebpackMessages(stats)
    IN  (IF ~Truthy(a.nonInteractive) THEN <<clearConsole>> ELSE <<>>)
        \o devSocketPart(messages)
        \o <<log(Text(" "))>>
        \o successPart(messages)
        \o instructionsPart(messages, a, first)
        \o finishAndSummary(messages)

isFirstCompileAfterDoneOnSuccess(stats, first) ==
    IF isSuccessful(formatWebpackMessages(stats)) THEN FALSE ELSE first

\* isFirstCompile = false, on every path through the handler
isFirstCompileAfterDone(stats, first) == FALSE

DoneEvent ==
    /\ prog = "compiler"
    /\ cpc = "listening"
    /\ "done" \in handlers
    /\ Len(handled) < MaxEvents
    /\ \E stats \in StatsValues :
          /\ Deliver("done", stats, doneHandler(stats, args, isFirstCompile))
          /\ isFirstCompile' = isFirstCompileAfterDone(stats, isFirstCompile)
    /\ UNCHANGED <<prog, configVars, script, args, webpackCalls, startup, handlers>>

----------------------------------------------------------------------------
(* The specification.                                                      *)

Init ==
    /\ prog = "none"
    /\ env = NoEnv
    /\ webConfig = NoWebConfig
    /\ result = NoResult
    /\ args = NoArgs
    /\ cpc = "idle"
    /\ exitCode = "none"
    /\ webpackCalls = 0
    /\ startup = <<>>
    /\ handlers = {}
    /\ isFirstCompile = TRUE
    /\ handled = <<>>
    /\ script = NoScript

Next ==
    \/ ExportConfig
    \/ RunChangelog
    \/ ChildExit
    \/ createWebpackCompiler
    \/ InvalidEvent
    \/ DoneEvent

Spec == Init /\ [][Next]_vars

----------------------------------------------------------------------------
(* Vocabulary of the properties.                                           *)

DoneEvents == {i \in DOMAIN handled : handled[i].type = "done"}

InvalidEvents == {i \in DOMAIN handled : handled[i].type = "invalid"}

\* Event i is the first 'done' event since the compiler was created.
FirstDone(i) == \A k \in DoneEvents : k >= i

HasErrors(i) == Len(handled[i].stats.errors) > 0

HasWarnings(i) == Len(handled[i].stats.warnings) > 0

Clean(i) == ~HasErrors(i) /\ ~HasWarnings(i)

\* Positions in the output of event i where the fixed text t is logged.
LinesOf(i, t) ==
    {k \in DOMAIN handled[i].out :
        /\ handled[i].out[k].op \in {"log", "logWarning", "logError"}
        /\ handled[i].out[k].msg.kind = "text"
        /\ handled[i].out[k].msg.text = t}

CallsOf(i, o) == {k \in DOMAIN handled[i].out : handled[i].out[k].op = o}

PrintedInstructions(i) ==
    LinesOf(i, "You can now view appName in the browser.") # {}

PluginAt(name) == {i \in DOMAIN result.plugins : result.plugins[i] = name}

----------------------------------------------------------------------------
(* C1: when webpack(config) throws, ' ', 'Failed to compile', ' ', the     *)
(* error message (err.message, or err itself when it has no message) and   *)
(* ' ' are logged as errors and only then process.exit(1) is called; no    *)
(* handler is registered and onFinished is never called.                   *)

C1_Logged ==
    CASE args.webpack = "Error('Invalid configuration object')" ->
             "Invalid configuration object"
      [] args.webpack = "Error('')" -> "Error('')"
      [] OTHER -> args.webpack

C1_StartupFailure ==
    (prog = "compiler" /\ args.webpack # "returns") =>
        /\ cpc = "exited"
        /\ exitCode = "1"
        /\ Len(startup) = 6
        /\ \A k \in 1..5 : startup[k].op = "logError"
        /\ startup[2].msg = Text("Failed to compile")
        /\ startup[4].msg = Text(C1_Logged)
        /\ startup[6] = processExitEffect("1")
        /\ handlers = {}
        /\ handled = <<>>
        /\ \A k \in DOMAIN startup : startup[k].op # "onFinished"

C1_Witness ==
    /\ prog = "compiler"
    /\ args.webpack = "Error('')"
    /\ cpc = "exited"
    /\ startup[4].msg = Text("Error('')")

----------------------------------------------------------------------------
(* C2: the devtool of the built configuration is config.web.devtool when   *)
(* env.production is truthy and the devtool is defined (false included),   *)
(* 'source-map' when production is truthy and it is undefined,             *)
(* 'cheap-module-source-map' when production is falsy and development is   *)
(* truthy, and undefined when neither flag is set.                         *)

C2_Devtool ==
    prog = "config" =>
        /\ (Truthy(env.production) /\ webConfig.devtool # "undefined")
              => result.devtool = webConfig.devtool
        /\ (Truthy(env.production) /\ webConfig.devtool = "undefined")
              => result.devtool = "'source-map'"
        /\ (~Truthy(env.production) /\ Truthy(env.development))
              => result.devtool = "'cheap-module-source-map'"
        /\ (~Truthy(env.production) /\ ~Truthy(env.development))
              => result.devtool = "undefined"

C2_Witness ==
    /\ prog = "config"
    /\ Truthy(env.production)
    /\ Truthy(env.development)
    /\ webConfig.devtool = "false"
    /\ result.devtool = "false"

----------------------------------------------------------------------------
(* C3: the built configuration has no GenerateSW plugin when               *)
(* env.production is falsy; when it is truthy the plugin is there exactly  *)
(* when config.web.serviceWorker resolved against the default {} is        *)
(* truthy, and then exactly once and before the manifest plugin.           *)

C3_ServiceWorkerPlugin ==
    prog = "config" =>
        LET sw == PluginAt("WorkboxPlugin.GenerateSW")
            mf == PluginAt("WebpackPWAManifestPlugin")
        IN  /\ ~Truthy(env.production) => sw = {}
            /\ Truthy(env.production) =>
                 (sw # {} <=> Truthy(overrideWithPropertyOrConfig(
                                       webConfig.serviceWorker, "{}")))
            /\ Cardinality(sw) <= 1
            /\ Cardinality(mf) = 1
            /\ \A i \in sw, j \in mf : i < j

C3_Witness ==
    /\ prog = "config"
    /\ env.production = "true"
    /\ webConfig.serviceWorker = "true"
    /\ Cardinality(PluginAt("WorkboxPlugin.GenerateSW")) = 1
    /\ \A i \in PluginAt("WorkboxPlugin.GenerateSW"),
          j \in PluginAt("WebpackPWAManifestPlugin") : i < j

----------------------------------------------------------------------------
(* C4: the script spawns exactly one child, lerna with the arguments       *)
(* ['version', '--conventional-commits'] whatever its own arguments, and   *)
(* once the child has exited the script has terminated with the child's    *)
(* exit code, also when a signal ended the child.                          *)

C4_ExitsWithChildCode ==
    prog = "changelog" =>
        /\ Len(script.spawned) = 1
        /\ script.spawned[1].args = <<"version", "--conventional-commits">>
        /\ script.child = "exited" => script.status = script.childExit.code

----------------------------------------------------------------------------
(* C5: once the compiler has been created, no sequence of 'invalid' and    *)
(* 'done' events ends the process, calls webpack(config) again or removes  *)
(* a handler; process.exit is called only when webpack(config) threw.      *)

C5_EventsOnlyPrint ==
    /\ (prog = "compiler" /\ args.webpack = "returns") =>
          /\ cpc = "listening"
          /\ exitCode = "none"
          /\ webpackCalls = 1
          /\ handlers = {"invalid", "done"}
          /\ \A i \in DOMAIN handled : CallsOf(i, "process.exit") = {}
    /\ cpc = "exited" => (args.webpack # "returns" /\ handled = <<>>)

C5_Witness ==
    /\ cpc = "listening"
    /\ \E i, j, k \in DOMAIN handled :
          /\ i < j /\ j < k
          /\ handled[i].type = "done" /\ HasErrors(i) /\ HasWarnings(i)
          /\ handled[j].type = "invalid"
          /\ handled[k].type = "done" /\ HasWarnings(k) /\ ~HasErrors(k)

----------------------------------------------------------------------------
(* C6 as stated: two 'done' events with identical stats produce identical  *)
(* output, whatever was handled before them.                               *)

C6_OutputFromStatsAlone ==
    \A i, j \in DoneEvents :
        handled[i].stats = handled[j].stats => handled[i].out = handled[j].out

(* C6 as amended: two 'done' events with identical stats produce identical *)
(* output unless nonInteractive is true, the stats have no errors and no   *)
(* warnings, and exactly one of the two is the first 'done' event.         *)

C6_OutputFromStatsAndFirstCompile ==
    \A i, j \in DoneEvents :
        (handled[i].stats = handled[j].stats /\ handled[i].out # handled[j].out)
            => /\ Truthy(args.nonInteractive)
               /\ Clean(i)
               /\ FirstDone(i) # FirstDone(j)

C6_Witness ==
    /\ Truthy(args.nonInteractive)
    /\ \E i, j, k \in DoneEvents :
          /\ i < j /\ j < k
          /\ Clean(i) /\ Clean(j) /\ Clean(k)
          /\ handled[i].out # handled[j].out
          /\ handled[j].out = handled[k].out

----------------------------------------------------------------------------
(* C7: for a 'done' event with at least one error, every compiler message  *)
(* logged on any channel during the event is the first formatted error,    *)
(* and nothing else.                                                       *)

C7_OnlyFirstErrorLogged ==
    \A i \in DoneEvents :
        HasErrors(i) =>
            \A k \in DOMAIN handled[i].out :
                handled[i].out[k].msg.kind \in {"array", "join"} =>
                    handled[i].out[k].msg.items =
                        <<[handled[i].stats.errors[1] EXCEPT !.formatted = TRUE]>>

----------------------------------------------------------------------------
(* C8: the instructions are printed for a 'done' event exactly when it has *)
(* no errors and no warnings and nonInteractive is false or it is the      *)
(* first 'done' event; so with nonInteractive true they are printed at     *)
(* most once, and never if the first 'done' event was not clean.           *)

C8_Instructions ==
    LET printed == {i \in DoneEvents : PrintedInstructions(i)}
    IN  /\ \A i \in DoneEvents :
              PrintedInstructions(i) <=>
                  (Clean(i) /\ (~Truthy(args.nonInteractive) \/ FirstDone(i)))
        /\ \A i \in InvalidEvents : ~PrintedInstructions(i)
        /\ Truthy(args.nonInteractive) =>
              /\ Cardinality(printed) <= 1
              /\ (\E i \in DoneEvents : FirstDone(i) /\ ~Clean(i)) => printed = {}

C8_Witness ==
    /\ Truthy(args.nonInteractive)
    /\ \E i, j \in DoneEvents :
          /\ i < j
          /\ Clean(i) /\ Clean(j)
          /\ PrintedInstructions(i)
          /\ ~PrintedInstructions(j)

----------------------------------------------------------------------------
(* C9: every 'done' event calls onFinished exactly once, before its        *)
(* 'Failed to compile.' or 'Compiled with warnings.' line; 'invalid'       *)
(* events never call it.                                                   *)

C9_OnFinished ==
    /\ \A i \in DoneEvents :
          /\ Cardinality(CallsOf(i, "onFinished")) = 1
          /\ \A f \in CallsOf(i, "onFinished"),
                s \in LinesOf(i, "Failed to compile.\n")
                      \cup LinesOf(i, "Compiled with warnings.\n") : f < s
    /\ \A i \in InvalidEvents : CallsOf(i, "onFinished") = {}

C9_Witness ==
    \E i, j, k \in DOMAIN handled :
        /\ handled[i].type = "invalid"
        /\ handled[j].type = "done" /\ HasErrors(j)
        /\ LinesOf(j, "Failed to compile.\n") # {}
        /\ handled[k].type = "done" /\ Clean(k)
        /\ Cardinality(CallsOf(k, "onFinished")) = 1

----------------------------------------------------------------------------
(* C10: each 'done' event logs exactly one headline: 'Compiled             *)
(* successfully!' iff it has no errors and no warnings, 'Failed to         *)
(* compile.' iff it has an error, 'Compiled with warnings.' iff it has     *)
(* warnings and no errors.                                                 *)

C10_OneHeadline ==
    \A i \in DoneEvents :
        LET ok   == LinesOf(i, "Compiled successfully!")
            bad  == LinesOf(i, "Failed to compile.\n")
            warn == LinesOf(i, "Compiled with warnings.\n")
        IN  /\ ok # {} <=> Clean(i)
            /\ bad # {} <=> HasErrors(i)
            /\ warn # {} <=> (HasWarnings(i) /\ ~HasErrors(i))
            /\ Cardinality(ok) + Cardinality(bad) + Cardinality(warn) = 1

C10_Witness ==
    \E i, j, k \in DoneEvents :
        /\ LinesOf(i, "Compiled successfully!") # {}
        /\ LinesOf(j, "Failed to compile.\n") # {} /\ HasWarnings(j)
        /\ LinesOf(k, "Compiled with warnings.\n") # {}

====
